---- MODULE Spec2Model ----
(***************************************************************************)
(* A model of the trading decision core of RIT-Hackathon:                  *)
(*   - Algo/src/position_tracker.py  (PositionTracker, the ledger)         *)
(*   - Algo/src/trader.py            (Trader.execute_trades)               *)
(*   - Algo/src/client.py            (RITClient, the venue collaborator)   *)
(*   - Liabilities/src/tender.py, close_out_utils.py, main.py (tenders)    *)
(*                                                                         *)
(* Numbers.  Prices are integers (a price unit).  position_costs is a Python     *)
(* float; it is modelled as an exact rational <<numerator, denominator>>   *)
(* in cents (denominator > 0, lowest terms), i.e. float rounding error is  *)
(* not modelled.  Spreads are in basis points (1e-4), so 0.02 is 200.      *)
(***************************************************************************)
EXTENDS Integers, Sequences, FiniteSets, TLC

(***************************************************************************)
(* Bounds of the model.                                                    *)
(***************************************************************************)
\* number of PositionTracker calls explored by the ledger specification
MaxCalls == 4

\* number of threads calling update_position concurrently
NumThreads == 2

(***************************************************************************)
(* Arithmetic helpers (Python built-ins and exact rationals).              *)
(***************************************************************************)
Abs(x) == IF x < 0 THEN -x ELSE x

Min(a, b) == IF a <= b THEN a ELSE b

Max(a, b) == IF a >= b THEN a ELSE b

RECURSIVE GCD(_, _)
GCD(a, b) == IF b = 0 THEN a ELSE GCD(b, a % b)

\* the rational n/d (d # 0) in lowest terms with a positive denominator
Rat(n, d) ==
  LET g == GCD(Abs(n), Abs(d))
      s == IF d < 0 THEN -1 ELSE 1
  IN <<(s * n) \div g, (s * d) \div g>>

\* products are cross-reduced first so that intermediate values stay small
RatMul(x, y) ==
  LET a == Rat(x[1], y[2])
      b == Rat(y[1], x[2])
  IN Rat(a[1] * b[1], a[2] * b[2])

RatDiv(x, y) == RatMul(x, Rat(y[2], y[1]))

RatAdd(x, y) ==
  LET g == GCD(x[2], y[2])
  IN Rat(x[1] * (y[2] \div g) + y[1] * (x[2] \div g), (x[2] \div g) * y[2])

RatLess(x, y) == x[1] * y[2] < y[1] * x[2]

RatInt(n) == <<n, 1>>

(***************************************************************************)
(* Static configuration (src/config.py of the repository: SECURITIES_CONFIG *)
(* and TRADING_CONFIG; the file is not part of the source tree, the values  *)
(* are those of the specification's configuration table and examples).      *)
(***************************************************************************)
Tickers == {"OWL", "DUCK", "CROW"}

\* a ticker that is not a key of the configuration
UnknownTicker == "ZZZ"

position_limit == [t \in Tickers |-> 1000]

\* portfolio-wide exposure limits of the ExposureLimits record
gross_limit == 1500

net_limit == 1200

\* SecurityConfig.volatility
volatility ==
  [t \in Tickers |-> CASE t = "OWL" -> "LOW" [] t = "DUCK" -> "MEDIUM"
                        [] OTHER -> "HIGH"]

\* SecurityConfig.max_order_size
max_order_size == [t \in Tickers |-> 1000]

\* SecurityConfig.min_spread, in basis points (0.02)
min_spread == [t \in Tickers |-> 200]

\* TRADING_CONFIG['market_making'].target_spread, in basis points (0.05)
target_spread == 500

\* TRADING_CONFIG['market_making'].base_order_size
base_order_size == [t \in Tickers |-> 500]

\* TRADING_CONFIG['market_making'].max_position_size
max_position_size == [t \in Tickers |-> 1000]

\* the values of TRADING_CONFIG['market_making'].min_order_size considered
MinOrderSizes == {0, 100}

\* TRADING_CONFIG['market_making'].order_refresh_time, in seconds
order_refresh_time == 2

(***************************************************************************)
(* State.                                                                  *)
(***************************************************************************)
VARIABLES
  positions,       \* PositionTracker.positions: ticker -> signed quantity
  position_costs,  \* PositionTracker.position_costs: ticker -> rational (cents)
  last_prices,     \* PositionTracker.last_prices: ticker -> price (cents)
  op,              \* the operation that ran last, its ticker (and quote)
  ret,             \* what it returned
  calls,           \* number of operations run so far
  thr,             \* per thread: where it is in update_position, and its locals
  price_history,   \* Trader.price_history: ticker -> window of mid prices
  min_order_size,  \* TRADING_CONFIG['market_making'].min_order_size (fixed at start)
  cancelled,       \* last execute_trades: "none", or the cancel request's outcome
  submitted,       \* last execute_trades: its submit_order calls, in order
  resting,         \* venue: which batches have orders resting, per ticker
  adjustment,      \* last execute_trades: its mean_reversion_adjustment, <<>>
                   \* when it returned before line 142
  last_order_time, \* Trader.last_order_time: ticker -> time of the last refresh
  now,             \* time.time(), in seconds
  lpc,             \* Liabilities main loop: "poll" or "wait_ended"
  cycles,          \* number of loop iterations and evaluate_tender calls so far
  evals,           \* tender_id -> number of evaluate_tender calls on it
  decided,         \* tender_id -> number of decisions returned for it
  outcome          \* tender_id -> the last call's decision or exception

vars == <<positions, position_costs, last_prices, op, ret, calls, thr,
          price_history, min_order_size, cancelled, submitted, resting,
          adjustment, last_order_time, now, lpc, cycles, evals, decided, outcome>>

\* the Trader's window and configuration, the call record, the venue and
\* the clock
trader == <<price_history, min_order_size, cancelled, submitted, resting,
            adjustment, last_order_time, now>>

\* the Liabilities loop and its record of evaluations
liab == <<lpc, cycles, evals, decided, outcome>>

ledger == <<positions, position_costs, last_prices>>

\* an optional price: <<>> is None, <<p>> is the price p
NoPrice == <<>>

(***************************************************************************)
(* PositionTracker                                                         *)
(***************************************************************************)
\* PositionTracker.__init__
TrackerInit ==
  /\ positions = [t \in Tickers |-> 0]
  /\ position_costs = [t \in Tickers |-> RatInt(0)]
  /\ last_prices = [t \in Tickers |-> 0]

\* a limit check that forgets the absolute value (short positions unchecked)
ExceedsLimitSigned(ticker, new_position) ==
  new_position > position_limit[ticker]

\* the limit check of update_position and can_trade
ExceedsLimit(ticker, new_position) ==
  Abs(new_position) > position_limit[ticker]

\* update_position, lines 42-47: the cost basis after an admitted change; pos is
\* positions[ticker] as read back AFTER the write of line 39
CostAfter(cost, pos, change, price) ==
  IF price = NoPrice THEN cost
  ELSE IF change > 0
       THEN RatAdd(cost, RatInt(change * price[1]))
       ELSE LET avg_cost == IF pos # 0 THEN RatDiv(cost, RatInt(pos))
                                      ELSE RatInt(price[1])
            IN RatAdd(cost, RatMul(RatInt(change), avg_cost))

\* update_position, line 49
LastPriceAfter(last, price) == IF price = NoPrice THEN last ELSE price[1]

\* a rejection that has already stored the new position
LedgerOnRejectStored(ticker, new_position) ==
  << [positions EXCEPT ![ticker] = new_position], position_costs, last_prices >>

\* the ledger as update_position leaves it when it returns False
LedgerOnReject(ticker, new_position) == ledger

\* the ledger as update_position leaves it when it returns True
LedgerOnAdmit(ticker, change, price) ==
  LET new_position == positions[ticker] + change
  IN << [positions EXCEPT ![ticker] = new_position],
        [position_costs EXCEPT
           ![ticker] = CostAfter(@, new_position, change, price)],
        [last_prices EXCEPT ![ticker] = LastPriceAfter(@, price)] >>

\* assignment of the three ledger fields
SetLedger(l) ==
  /\ positions' = l[1]
  /\ position_costs' = l[2]
  /\ last_prices' = l[3]

\* PositionTracker.update_position(ticker, change, price): its return value
\* and its effect on the ledger
UpdateLedger(ticker, change, price) ==
  /\ calls' = calls + 1
  /\ UNCHANGED <<thr, trader, liab>>
  /\ IF ticker \notin DOMAIN positions
     THEN /\ ret' = FALSE
          /\ UNCHANGED ledger
     ELSE LET new_position == positions[ticker] + change
          IN IF ExceedsLimit(ticker, new_position)
             THEN /\ ret' = FALSE
                  /\ SetLedger(LedgerOnReject(ticker, new_position))
             ELSE /\ ret' = TRUE
                  /\ SetLedger(LedgerOnAdmit(ticker, change, price))

\* PositionTracker.update_position(ticker, change, price)
update_position(ticker, change, price) ==
  /\ op' = <<"update_position", ticker>>
  /\ UpdateLedger(ticker, change, price)

\* update_position, the operation record holding all its arguments
update_position_call(ticker, change, price) ==
  /\ op' = <<"update_position", ticker, change, price>>
  /\ UpdateLedger(ticker, change, price)

\* a can_trade that takes every action for a BUY
CanTradeAsBuy(ticker, quantity, action) ==
  IF ticker \notin DOMAIN positions THEN FALSE
  ELSE ~ExceedsLimit(ticker, positions[ticker] + quantity)

\* PositionTracker.can_trade(ticker, quantity, action)
CanTrade(ticker, quantity, action) ==
  IF ticker \notin DOMAIN positions THEN FALSE
  ELSE LET change == IF action = "BUY" THEN quantity ELSE -quantity
           new_position == positions[ticker] + change
       IN ~ExceedsLimit(ticker, new_position)

can_trade(ticker, quantity, action) ==
  /\ op' = <<"can_trade", ticker>>
  /\ calls' = calls + 1
  /\ ret' = CanTrade(ticker, quantity, action)
  /\ UNCHANGED <<ledger, thr, trader, liab>>

\* can_trade, the operation record holding all its arguments
can_trade_call(ticker, quantity, action) ==
  /\ op' = <<"can_trade", ticker, quantity, action>>
  /\ calls' = calls + 1
  /\ ret' = CanTrade(ticker, quantity, action)
  /\ UNCHANGED <<ledger, thr, trader, liab>>

\* PositionTracker.reset_positions
reset_positions ==
  /\ op' = <<"reset_positions">>
  /\ calls' = calls + 1
  /\ ret' = TRUE
  /\ positions' = [t \in DOMAIN positions |-> 0]
  /\ position_costs' = [t \in DOMAIN positions |-> RatInt(0)]
  /\ UNCHANGED <<last_prices, thr, trader, liab>>

(***************************************************************************)
(* Trader (Algo/src/trader.py).  A security is [ticker, bid, ask] with the *)
(* prices in cents; a missing bid or ask is 0, as security.get('bid', 0).  *)
(* The window holds bid + ask, twice the mid price, so that it stays an    *)
(* integer; every use below accounts for the factor 2.                     *)
(***************************************************************************)
\* MAX_MARKET_SPREAD = 0.035, in basis points
MAX_MARKET_SPREAD == 350

\* MAX_SPREAD = 0.03, in basis points
MAX_SPREAD == 300

\* deque(maxlen=20)
HistoryMaxLen == 20

\* the clock when the Trader is constructed (seconds; time.time() is far
\* beyond any refresh interval)
StartTime == 10

\* Trader.__init__ (and a venue with no order resting)
TraderInit ==
  /\ price_history = [t \in Tickers |-> <<>>]
  /\ cancelled = "none"
  /\ submitted = <<>>
  /\ resting = [t \in Tickers |-> {}]
  /\ adjustment = << >>
  /\ last_order_time = [t \in Tickers |-> 0]
  /\ now = StartTime

RatSub(x, y) == RatAdd(x, <<-y[1], y[2]>>)

RatAbs(x) == <<Abs(x[1]), x[2]>>

RatMin(x, y) == IF RatLess(y, x) THEN y ELSE x

\* int(x): truncation toward zero
TruncInt(x) ==
  IF x[1] >= 0 THEN x[1] \div x[2] ELSE -((-x[1]) \div x[2])

\* round(x, 2) of a price x given in cents: the nearest cent, a tie to even
Round2(x) ==
  LET q == x[1] \div x[2]
      r == x[1] - q * x[2]
  IN IF 2 * r < x[2] THEN q
     ELSE IF 2 * r > x[2] THEN q + 1
     ELSE IF q % 2 = 0 THEN q ELSE q + 1

\* ValidQuote without the test ask <= bid
ValidQuotePositive(sec) == sec.bid > 0 /\ sec.ask > 0

\* line 113: the basic market data check
ValidQuote(sec) == ~(sec.bid <= 0 \/ sec.ask <= 0 \/ sec.ask <= sec.bid)

\* lines 119-124: market_spread / mid_price > MAX_MARKET_SPREAD
SpreadTooWide(sec) ==
  20000 * (sec.ask - sec.bid) > MAX_MARKET_SPREAD * (sec.bid + sec.ask)

\* a deque that drops the newest sample when full
DequeAppendKeepOldest(h, x) ==
  IF Len(h) >= HistoryMaxLen THEN h ELSE Append(h, x)

\* deque.append on a deque with maxlen: the oldest sample is dropped when full
DequeAppend(h, x) ==
  IF Len(h) >= HistoryMaxLen THEN Append(Tail(h), x) ELSE Append(h, x)

RECURSIVE SeqSum(_)
SeqSum(q) == IF q = <<>> THEN 0 ELSE Head(q) + SeqSum(Tail(q))

\* ZSignal without the test std_dev_price > 0 of line 139
ZSignalUnguarded(h, mid2) ==
  LET n == Len(h)
      d == [i \in 1 .. n |-> h[i] - h[1]]
      S == SeqSum(d)
      Q == SeqSum([i \in 1 .. n |-> d[i] * d[i]])
      V == n * Q - S * S
      D == n * (mid2 - h[1]) - S
  IN IF (n - 1) * D * D >= 4 * n * V
     THEN (IF D > 0 THEN 1 ELSE -1)
     ELSE 0

\* lines 137-146: 1 when z_score > 2, -1 when z_score < -2, 0 otherwise, where
\* z_score = (mid - mean) / stdev (Bessel-corrected), and 0 when stdev is 0.
\* mean and stdev are shift invariant; the samples are taken relative to the
\* oldest one.  With n samples, D = n*(mid - mean) and V = n*(n-1)*variance:
\* z > 2 iff D > 0 and (n-1)*D^2 > 4*n*V.
ZSignal(h, mid2) ==
  LET n == Len(h)
      d == [i \in 1 .. n |-> h[i] - h[1]]
      S == SeqSum(d)
      Q == SeqSum([i \in 1 .. n |-> d[i] * d[i]])
      V == n * Q - S * S
      D == n * (mid2 - h[1]) - S
  IN IF V <= 0 THEN 0
     ELSE IF (n - 1) * D * D > 4 * n * V
          THEN (IF D > 0 THEN 1 ELSE -1)
          ELSE 0

\* lines 142-146
mean_reversion_adjustment(h, mid2) ==
  IF ZSignal(h, mid2) # 0 THEN <<6, 5>> ELSE RatInt(1)

\* lines 158-162
spread_multiplier(ticker) ==
  CASE volatility[ticker] = "LOW" -> <<4, 5>>
    [] volatility[ticker] = "MEDIUM" -> RatInt(1)
    [] volatility[ticker] = "HIGH" -> <<13, 10>>

\* lines 176-180
size_multiplier(ticker) ==
  CASE volatility[ticker] = "LOW" -> <<6, 5>>
    [] volatility[ticker] = "MEDIUM" -> RatInt(1)
    [] volatility[ticker] = "HIGH" -> <<4, 5>>

\* line 168
position_skew(ticker, current_position) ==
  Rat(current_position, max_position_size[ticker])

\* a final spread without the cap of lines 172-173
final_spread_uncapped(ticker, current_position, mra) ==
  LET skew == position_skew(ticker, current_position)
      target == Max(min_spread[ticker], target_spread)
      adjusted == RatMul(RatMul(RatInt(target), spread_multiplier(ticker)),
                         RatAdd(RatInt(1), RatMul(RatAbs(skew), <<1, 5>>)))
  IN RatDiv(adjusted, mra)

\* lines 164-173, in basis points
final_spread(ticker, current_position, mra) ==
  LET skew == position_skew(ticker, current_position)
      target == Max(min_spread[ticker], target_spread)
      adjusted == RatMul(RatMul(RatInt(target), spread_multiplier(ticker)),
                         RatAdd(RatInt(1), RatMul(RatAbs(skew), <<1, 5>>)))
  IN RatDiv(RatMin(adjusted, RatInt(MAX_SPREAD)), mra)

\* lines 207-208
ApplySizeLimits(ticker, base) ==
  Min(Max(min_order_size, TruncInt(base)), max_order_size[ticker])

\* lines 198 and 202: the unwinding side is priced at the opposite touch
EmergencyPrice(touch, quoted) == touch

\* lines 182-208: the quote [our_bid, our_ask, buy_size, sell_size]
Quote(sec, current_position, mra) ==
  LET ticker == sec.ticker
      skew == position_skew(ticker, current_position)
      askew == RatAbs(skew)
      half_spread == RatDiv(final_spread(ticker, current_position, mra),
                            RatInt(20000))
      mid_price == Rat(sec.bid + sec.ask, 2)
      base == RatInt(TruncInt(RatMul(RatInt(base_order_size[ticker]),
                                     size_multiplier(ticker))))
      shrink == RatSub(RatInt(1), askew)
      grow == RatAdd(RatInt(1), RatMul(askew, mra))
      long == skew[1] > 0
      base_buy == RatMul(base, IF long THEN shrink ELSE grow)
      base_sell == RatMul(base, IF long THEN grow ELSE shrink)
      bid0 == Round2(RatMul(mid_price, RatSub(RatInt(1), half_spread)))
      ask0 == Round2(RatMul(mid_price, RatAdd(RatInt(1), half_spread)))
      emergency == RatLess(<<4, 5>>, askew)
      our_bid == IF emergency /\ ~long THEN EmergencyPrice(sec.ask, bid0) ELSE bid0
      our_ask == IF emergency /\ long THEN EmergencyPrice(sec.bid, ask0) ELSE ask0
      buy1 == IF ~emergency THEN base_buy
              ELSE IF long THEN RatInt(0) ELSE RatMul(base_buy, <<5, 2>>)
      sell1 == IF ~emergency THEN base_sell
               ELSE IF long THEN RatMul(base_sell, <<5, 2>>) ELSE RatInt(0)
  IN [our_bid |-> our_bid, our_ask |-> our_ask,
      buy_size |-> ApplySizeLimits(ticker, buy1),
      sell_size |-> ApplySizeLimits(ticker, sell1)]

\* lines 214 and 223: if size and abs(current_position) < max_position
MaySubmit(ticker, size, current_position) ==
  size # 0 /\ Abs(current_position) < max_position_size[ticker]

\* RITClient.submit_order: no request for a quantity <= 0; otherwise the venue
\* acknowledges or the request fails (returns None); price is round(price, 2)
SubmitOrder(action, quantity, price, venue_ack) ==
  [action |-> action, quantity |-> quantity, price |-> Round2(RatInt(price)),
   ack |-> (quantity > 0 /\ venue_ack)]

\* lines 214-230: the submit_order calls of one execute_trades, in order
SubmitCalls(sec, q, current_position, buy_ack, sell_ack) ==
  (IF MaySubmit(sec.ticker, q.buy_size, current_position)
   THEN << SubmitOrder("BUY", q.buy_size, q.our_bid, buy_ack) >> ELSE << >>)
  \o
  (IF MaySubmit(sec.ticker, q.sell_size, current_position)
   THEN << SubmitOrder("SELL", q.sell_size, q.our_ask, sell_ack) >> ELSE << >>)

Acked(orders) == {i \in 1 .. Len(orders) : orders[i].ack}

\* RITClient.cancel_orders_for_ticker as the venue sees it: the orders of
\* earlier batches are gone if the request succeeded and still rest if it failed
RestingAfterCancel(before, cancel_ok) ==
  IF cancel_ok \/ before = {} THEN {} ELSE {"stale"}

\* a submission that books acknowledged orders as filled
LedgerAfterSubmitFilled(ticker, orders) ==
  << [positions EXCEPT ![ticker] =
        @ + SeqSum([i \in 1 .. Len(orders) |->
                      IF ~orders[i].ack THEN 0
                      ELSE IF orders[i].action = "BUY" THEN orders[i].quantity
                      ELSE -orders[i].quantity])],
     position_costs, last_prices >>

\* lines 210-232: the ledger after the orders were submitted; execute_trades
\* reads the position (line 153) and never calls update_position
LedgerAfterSubmit(ticker, orders) == ledger

\* a refresh that is always due
RefreshDueAlways(ticker) == TRUE

\* line 102: current_time - last_order_time[ticker] >= order_refresh_time
RefreshDue(ticker) == now - last_order_time[ticker] >= order_refresh_time

\* Trader.should_refresh_orders(ticker); an unknown ticker raises KeyError at
\* line 102
should_refresh_orders(ticker) ==
  /\ op' = <<"should_refresh_orders", ticker>>
  /\ IF ticker \notin DOMAIN last_order_time
     THEN ret' = "KeyError" /\ UNCHANGED last_order_time
     ELSE IF RefreshDue(ticker)
     THEN /\ last_order_time' = [last_order_time EXCEPT ![ticker] = now]
          /\ ret' = TRUE
     ELSE ret' = FALSE /\ UNCHANGED last_order_time
  /\ UNCHANGED <<ledger, calls, thr, price_history, min_order_size, cancelled,
                 submitted, resting, adjustment, now, liab>>

\* the clock advances by a second
clock_tick ==
  /\ now' = now + 1
  /\ op' = <<"tick">>
  /\ UNCHANGED <<ledger, ret, calls, thr, price_history, min_order_size,
                 cancelled, submitted, resting, adjustment, last_order_time,
                 liab>>

\* Trader.update_price_history(securities): securities maps tickers to quotes;
\* a ticker without a window is skipped (line 53), and the mid price of any
\* other one is appended, whatever its bid and ask.  The operation record
\* names the tickers whose window was full when the call came
update_price_history(securities) ==
  /\ price_history' =
       [t \in DOMAIN price_history |->
          IF t \in DOMAIN securities
          THEN DequeAppend(price_history[t],
                           securities[t].bid + securities[t].ask)
          ELSE price_history[t]]
  /\ op' = <<"update_price_history", securities,
             {t \in DOMAIN price_history \cap DOMAIN securities :
                Len(price_history[t]) = HistoryMaxLen}>>
  /\ UNCHANGED <<ledger, ret, calls, thr, min_order_size, cancelled, submitted,
                 resting, adjustment, last_order_time, now, liab>>

\* execute_trades returning 0 before the cancel (lines 115, 126, 134, 236)
ReturnEarly ==
  /\ ret' = 0
  /\ cancelled' = "none"
  /\ submitted' = << >>
  /\ adjustment' = << >>
  /\ UNCHANGED <<ledger, resting>>

\* Trader.execute_trades(security).  cancel_ok, buy_ack and sell_ack are the
\* venue's answers to the cancel request and to the two order requests
execute_trades(sec) ==
  LET ticker == sec.ticker
      mid2 == sec.bid + sec.ask
  IN
  /\ op' = <<"execute_trades", ticker, sec.bid, sec.ask>>
  /\ UNCHANGED <<calls, thr, min_order_size, last_order_time, now, liab>>
  /\ IF ~ValidQuote(sec) \/ SpreadTooWide(sec)
     THEN ReturnEarly /\ UNCHANGED price_history
     ELSE IF ticker \notin DOMAIN price_history
     THEN \* line 130 raises KeyError, caught at line 234
          ReturnEarly /\ UNCHANGED price_history
     ELSE
       LET h == DequeAppend(price_history[ticker], mid2)
       IN /\ price_history' = [price_history EXCEPT ![ticker] = h]
          /\ IF Len(h) < 2
             THEN ReturnEarly
             ELSE
               LET current_position == positions[ticker]
                   adj == mean_reversion_adjustment(h, mid2)
               IN \E q \in {Quote(sec, current_position, adj)},
                     cancel_ok \in BOOLEAN, buy_ack \in BOOLEAN,
                     sell_ack \in BOOLEAN :
                    LET orders == SubmitCalls(sec, q, current_position,
                                              buy_ack, sell_ack)
                        kept == RestingAfterCancel(resting[ticker], cancel_ok)
                    IN /\ adjustment' = adj
                       /\ cancelled' = IF cancel_ok THEN "ok" ELSE "failed"
                       /\ submitted' = orders
                       /\ resting' = [resting EXCEPT ![ticker] =
                             kept \cup (IF Acked(orders) # {} THEN {"fresh"}
                                        ELSE {})]
                       /\ ret' = Cardinality(Acked(orders))
                       /\ SetLedger(LedgerAfterSubmit(ticker, orders))

\* the venue: the orders resting for a ticker are filled or expire
venue_clears(ticker) ==
  /\ resting[ticker] # {}
  /\ resting' = [resting EXCEPT ![ticker] = {}]
  /\ op' = <<"venue_clears", ticker>>
  /\ UNCHANGED <<ledger, ret, calls, thr, price_history, min_order_size,
                 cancelled, submitted, adjustment, last_order_time, now,
                 liab>>

(***************************************************************************)
(* Liabilities: evaluate_tender (src/tender.py), close_out_utils.py,       *)
(* calculate_volatility (src/volatility.py) and the polling loop of        *)
(* Liabilities/main.py.  Prices and volatility are in cents; a dict is a   *)
(* record, and a missing key is a field outside its DOMAIN.                *)
(***************************************************************************)
\* the tender offers the venue can return; an offer never changes
Tender1 ==
  [tender_id |-> 1, ticker |-> "ABC", action |-> "SELL",
   quantity |-> 1000, price |-> 5100]

Tender2 ==
  [tender_id |-> 2, ticker |-> "XYZ", action |-> "buy",
   quantity |-> 500, price |-> 2480]

Tender3 ==
  [tender_id |-> 3, ticker |-> "ABC", action |-> "SELL",
   quantity |-> 1000, price |-> 5000]

TenderPool == {Tender1, Tender2, Tender3}

TenderIds == {t.tender_id : t \in TenderPool}

\* main.py before the first iteration of its loop
LiabInit ==
  /\ lpc = "poll"
  /\ cycles = 0
  /\ evals = [i \in TenderIds |-> 0]
  /\ decided = [i \in TenderIds |-> 0]
  /\ outcome = [i \in TenderIds |-> "none"]

\* str.upper() on the action strings in use
Upper(a) ==
  CASE a = "sell" -> "SELL"
    [] a = "buy" -> "BUY"
    [] OTHER -> a

\* the value a call returned, or the exception it raised
Ok(v) == [ok |-> TRUE, value |-> v]

Failed(e) == [ok |-> FALSE, error |-> e]

\* what get_order_book returns when the request fails
NoBook == [none |-> TRUE]

\* close_out_utils.calculate_liquidity: the quantities of the asks for SELL,
\* of the bids for BUY (order_book.get(side, [])), ValueError otherwise;
\* None.get raises AttributeError
calculate_liquidity(order_book, action) ==
  IF Upper(action) \notin {"SELL", "BUY"} THEN Failed("ValueError")
  ELSE IF order_book = NoBook THEN Failed("AttributeError")
  ELSE IF Upper(action) = "SELL"
  THEN Ok(SeqSum(IF "asks" \in DOMAIN order_book THEN order_book.asks ELSE << >>))
  ELSE Ok(SeqSum(IF "bids" \in DOMAIN order_book THEN order_book.bids ELSE << >>))

\* float("inf")
Inf == <<1, 0>>

\* a / b rounded down
CeilDivFloor(a, b) == a \div b

\* np.ceil(a / b) for b > 0
CeilDiv(a, b) == -((-a) \div b)

\* close_out_utils.estimate_close_out_time; line 43 divides by max_order_size
estimate_close_out_time(tender_size, order_book, action, max_order_size_) ==
  LET liquidity == calculate_liquidity(order_book, action)
  IN IF ~liquidity.ok THEN liquidity
     ELSE IF liquidity.value <= 0 THEN Ok(Inf)
     ELSE IF max_order_size_ = 0 THEN Failed("ZeroDivisionError")
     ELSE LET num_orders == CeilDiv(tender_size, max_order_size_)
              time_per_order == Rat(max_order_size_, liquidity.value)
          IN Ok(RatAdd(RatMul(RatInt(num_orders), time_per_order),
                       RatInt(num_orders)))

\* volatility.calculate_volatility as main.py calls it, with prices = [last]:
\* None for a ticker other than ABC and XYZ, else the default 0.05 (one sample)
DefaultVolatility == 5

calculate_volatility(ticker) ==
  IF ticker \notin {"ABC", "XYZ"} THEN << >> ELSE <<DefaultVolatility>>

\* dict.get(key, default)
Get(d, key, default) == IF key \in DOMAIN d THEN d[key] ELSE default

\* None used as a dict key (no dict of the model has it)
NoneKey == "None"

\* np.diff(prices) / prices[:-1]
Returns(prices) ==
  [i \in 1 .. Len(prices) - 1 |-> Rat(prices[i + 1] - prices[i], prices[i])]

\* np.std of one or two values: 0, and half their distance
StdUpToTwo(xs) ==
  IF Len(xs) < 2 THEN RatInt(0)
  ELSE RatMul(RatAbs(RatSub(xs[1], xs[2])), Rat(1, 2))

\* volatility.calculate_volatility with all its arguments, for up to three
\* prices; the result is in cents (the default 0.05 is 5), None is << >>
calculate_volatility_full(ticker, prices, liquidity, elapsed_time, current_tender_size, total_time) ==
  IF ticker \notin {"ABC", "XYZ"} THEN Ok(<< >>)               \* lines 20-22
  ELSE IF Len(prices) < 2 THEN Ok(RatInt(DefaultVolatility))  \* lines 25-27
  ELSE IF liquidity <= 0 THEN Failed("ValueError")            \* lines 29-30
  ELSE IF elapsed_time < 0 \/ elapsed_time > total_time
  THEN Failed("ValueError")                                   \* lines 31-32
  ELSE
  LET baseline_volatility == StdUpToTwo(Returns(prices))
      tender_impact == Rat(current_tender_size, liquidity + 1)
      adjusted_volatility == RatAdd(baseline_volatility, tender_impact)
      time_decay == RatSub(RatInt(1), Rat(elapsed_time, total_time))
  IN Ok(RatMul(RatInt(100), RatMul(adjusted_volatility, time_decay)))

Raise(e) == [kind |-> "raise", error |-> e]

Return(d, r) == [kind |-> "return", decision |-> d, reason |-> r]

\* a SELL price check that lets a price equal to the ask through
SellUncompetitiveStrict(tender_price, ask_price) == tender_price < ask_price

\* line 41
SellUncompetitive(tender_price, ask_price) == tender_price <= ask_price

\* a BUY price check that lets a price equal to the bid through
BuyUncompetitiveStrict(tender_price, bid_price) == tender_price > bid_price

\* line 45
BuyUncompetitive(tender_price, bid_price) == tender_price >= bid_price

\* line 62: estimated_close_time > time_remaining
CloseTimeExceeds(estimated_close_time, time_remaining) ==
  \/ estimated_close_time = Inf
  \/ RatLess(RatInt(time_remaining), estimated_close_time)

\* a ratio check that never fails
LiquidityNeverBelowRatio(liquidity, tender_size, ratio) == FALSE

\* line 64: liquidity / tender_size < config["liquidity_to_tender_ratio"]
LiquidityBelowRatio(liquidity, tender_size, ratio) ==
  RatLess(Rat(liquidity, tender_size), ratio)

\* a profit test that takes a profit of 0
ProfitableOrZero(total_profit) == total_profit[1] >= 0

\* line 78: total_profit > 0
Profitable(total_profit) == total_profit[1] > 0

\* tender.evaluate_tender(tender, market_data, time_remaining, config)
evaluate_tender(tender, market_data, time_remaining, config) ==
  LET ticker == Get(tender, "ticker", NoneKey)                 \* lines 18-21
      tender_size == Get(tender, "quantity", 0)
      tender_price == Get(tender, "price", 0)
      action == Upper(Get(tender, "action", ""))
  IN
  IF ticker \notin DOMAIN market_data
  THEN Raise("KeyError")                                      \* line 26
  ELSE
  LET md == market_data[ticker] IN
  IF "volatility_multiplier" \notin DOMAIN config
  THEN Raise("KeyError")                                      \* line 35
  ELSE IF md.volatility = << >>
  THEN Raise("TypeError")                                     \* line 35
  ELSE
  LET spread_adj == RatMul(RatInt(md.volatility[1]), config.volatility_multiplier)
      adjusted_bid == RatSub(RatInt(md.bid), spread_adj)
      adjusted_ask == RatAdd(RatInt(md.ask), spread_adj)
  IN
  IF action = "SELL" /\ SellUncompetitive(tender_price, md.ask)
  THEN Return("REJECT", "Tender price is not above the market ask price")
  ELSE IF action = "BUY" /\ BuyUncompetitive(tender_price, md.bid)
  THEN Return("REJECT", "Tender price is not below the market bid price")
  ELSE IF "max_order_size" \notin DOMAIN config
  THEN Return("REJECT", "Error estimating close-out time")    \* lines 57-59
  ELSE
  LET estimated_close_time ==
        estimate_close_out_time(tender_size, md.order_book, action,
                                config.max_order_size)
  IN
  IF ~estimated_close_time.ok
  THEN Return("REJECT", "Error estimating close-out time")    \* lines 57-59
  ELSE IF CloseTimeExceeds(estimated_close_time.value, time_remaining)
  THEN Return("REJECT", "Not enough time to close position")
  ELSE IF tender_size = 0
  THEN Raise("ZeroDivisionError")                             \* line 64
  ELSE IF LiquidityBelowRatio(md.liquidity, tender_size,
                              config.liquidity_to_tender_ratio)
  THEN Return("REJECT", "Insufficient liquidity")
  ELSE
  LET profit_per_share ==
        IF action = "SELL" THEN RatSub(RatInt(tender_price), adjusted_ask)
        ELSE RatSub(adjusted_bid, RatInt(tender_price))
      total_profit == RatMul(profit_per_share, RatInt(tender_size))
  IN IF Profitable(total_profit) THEN Return("ACCEPT", "Profitable")
     ELSE Return("REJECT", "Not profitable")

\* the config dict of main.py, lines 34-38
MainConfig ==
  [min_time_to_close |-> 20, max_price_gap |-> <<1, 20>>,
   liquidity_to_tender_ratio |-> <<1, 5>>]

\* a config dict with every key evaluate_tender reads
FullConfig ==
  [liquidity_to_tender_ratio |-> <<1, 5>>, volatility_multiplier |-> RatInt(2),
   max_order_size |-> 200]

\* ticks_per_period default of main.py, line 56
TicksPerPeriod == 600

\* the venue's data for a ticker
SecurityData(ticker) ==
  IF ticker = "ABC" THEN [ticker |-> "ABC", bid |-> 4990, ask |-> 5000, last |-> 5000]
  ELSE [ticker |-> ticker, bid |-> 2500, ask |-> 2510, last |-> 2500]

OrderBooks == { [bids |-> <<2000, 3000>>, asks |-> <<3000, 2000>>],
                [bids |-> << >>, asks |-> << >>] }

\* main.py lines 103-116: the market_data dict built for one tender (flat: its
\* keys are "bid", "ask", ..., not tickers)
MainMarketData(tender, order_book, liquidity) ==
  LET s == SecurityData(tender.ticker)
  IN [bid |-> s.bid, ask |-> s.ask, last |-> s.last,
      volatility |-> calculate_volatility(tender.ticker),
      liquidity |-> liquidity, order_book |-> order_book]

\* a market_data dict keyed by ticker, as evaluate_tender reads it
KeyedMarketData(tender, order_book) ==
  LET s == SecurityData(tender.ticker)
      entry == [bid |-> s.bid, ask |-> s.ask, last |-> s.last,
                volatility |-> calculate_volatility(tender.ticker),
                liquidity |-> calculate_liquidity(order_book, tender.action).value,
                order_book |-> order_book]
  IN IF tender.ticker = "ABC" THEN [ABC |-> entry] ELSE [XYZ |-> entry]

\* bookkeeping of one evaluate_tender call on a tender
Record(tender, result) ==
  /\ evals' = [evals EXCEPT ![tender.tender_id] = @ + 1]
  /\ decided' = [decided EXCEPT ![tender.tender_id] =
                   @ + (IF result.kind = "return" THEN 1 ELSE 0)]
  /\ outcome' = [outcome EXCEPT ![tender.tender_id] =
                   IF result.kind = "return" THEN result.decision
                   ELSE result.error]

\* main.py lines 92-129 for the tenders of one cycle, in order: each tender is
\* evaluated unless line 96 raises, and an exception is caught per tender
\* (line 128)
RECURSIVE ProcessTenders(_, _, _, _, _)
ProcessTenders(tenders, order_book, tick, ev, st) ==
  IF tenders = << >> THEN <<ev, st>>
  ELSE LET tender == Head(tenders)
           id == tender.tender_id
           liquidity == calculate_liquidity(order_book, tender.action)
       IN IF ~liquidity.ok
          THEN ProcessTenders(Tail(tenders), order_book, tick, ev,
                 [st EXCEPT ![id] = [decided |-> @.decided,
                                     outcome |-> liquidity.error]])
          ELSE
          LET market_data == MainMarketData(tender, order_book, liquidity.value)
              result == evaluate_tender(tender, market_data,
                                        TicksPerPeriod - tick, MainConfig)
          IN ProcessTenders(Tail(tenders), order_book, tick,
               [ev EXCEPT ![id] = @ + 1],
               [st EXCEPT ![id] = [decided |-> @.decided +
                                     (IF result.kind = "return" THEN 1 ELSE 0),
                                   outcome |-> IF result.kind = "return"
                                               THEN result.decision
                                               ELSE result.error]])

LiabIdle == UNCHANGED <<evals, decided, outcome>>

\* a status test that also takes a paused session for a running one
SessionRunningOrPaused(status) == status \in {"RUNNING", "ACTIVE", "PAUSED"}

\* main.py line 61
SessionRunning(status) == status \in {"RUNNING", "ACTIVE"}

\* one iteration of the while loop of main.py, lines 41-156.  status is the
\* answer of get_case_status ("raise", "none" or a case status with its tick),
\* securities_ok and tenders those of get_securities and get_tenders, which
\* are requested in a running session only (tenders only after securities,
\* the order book only for a tender); the operation record holds what was
\* fetched
poll_cycle(status, tick, securities_ok, tenders, order_book) ==
  /\ lpc = "poll"
  /\ cycles' = cycles + 1
  /\ op' = IF status \in {"raise", "none"} \/ ~SessionRunning(status)
           THEN <<"poll_cycle", status>>
           ELSE IF ~securities_ok \/ tenders = << >>
           THEN <<"poll_cycle", status, securities_ok, << >>, NoBook>>
           ELSE <<"poll_cycle", status, securities_ok, tenders, order_book>>
  /\ UNCHANGED <<ledger, ret, calls, thr, trader>>
  /\ IF status \in {"raise", "none"}
     THEN LiabIdle /\ UNCHANGED lpc                           \* lines 45-52
     ELSE IF SessionRunning(status)
     THEN /\ UNCHANGED lpc
          /\ IF ~securities_ok \/ tenders = << >>
             THEN LiabIdle                                    \* lines 69-90
             ELSE \E r \in {ProcessTenders(tenders, order_book, tick, evals,
                              [i \in TenderIds |->
                                 [decided |-> decided[i], outcome |-> outcome[i]]])} :
                    /\ evals' = r[1]
                    /\ decided' = [i \in TenderIds |-> r[2][i].decided]
                    /\ outcome' = [i \in TenderIds |-> r[2][i].outcome]
     ELSE IF status = "ENDED"
     THEN LiabIdle /\ lpc' = "wait_ended"                     \* lines 135-140
     ELSE LiabIdle /\ UNCHANGED lpc                           \* PAUSED, others

\* the inner loop of lines 140-150: one fetch of the case status (a None
\* answer raises at line 144 and is caught like a failed request)
wait_ended(status) ==
  /\ lpc = "wait_ended"
  /\ cycles' = cycles + 1
  /\ op' = <<"wait_ended", status>>
  /\ lpc' = IF status \in {"ENDED", "raise", "none"} THEN "wait_ended" ELSE "poll"
  /\ LiabIdle
  /\ UNCHANGED <<ledger, ret, calls, thr, trader>>

\* evaluate_tender called with a market_data dict keyed by ticker and a
\* config that has every key it reads
evaluate_direct(tender, order_book, time_remaining) ==
  /\ cycles' = cycles + 1
  /\ op' = <<"evaluate_tender", tender.tender_id>>
  /\ \E result \in {evaluate_tender(tender, KeyedMarketData(tender, order_book),
                                    time_remaining, FullConfig)} :
       Record(tender, result)
  /\ UNCHANGED <<ledger, ret, calls, thr, trader, lpc>>

\* evaluate_tender called with the given arguments; the operation record
\* holds them and ret the result
evaluate_call(tender, market_data, time_remaining, config) ==
  /\ cycles' = cycles + 1
  /\ op' = <<"evaluate_tender", tender.tender_id, tender, market_data,
             time_remaining, config>>
  /\ \E result \in {evaluate_tender(tender, market_data, time_remaining, config)} :
       ret' = result /\ Record(tender, result)
  /\ UNCHANGED <<ledger, calls, thr, trader, lpc>>

\* calculate_volatility called with the given arguments
volatility_call(ticker, prices, liquidity, elapsed_time, current_tender_size, total_time) ==
  /\ op' = <<"calculate_volatility", ticker, prices, liquidity, elapsed_time,
             current_tender_size, total_time>>
  /\ ret' = calculate_volatility_full(ticker, prices, liquidity, elapsed_time,
                                      current_tender_size, total_time)
  /\ UNCHANGED <<ledger, calls, thr, trader, liab>>

\* estimate_close_out_time called with the given arguments
estimate_call(tender_size, order_book, action, max_order_size_) ==
  /\ op' = <<"estimate_close_out_time", tender_size, order_book, action,
             max_order_size_>>
  /\ ret' = estimate_close_out_time(tender_size, order_book, action,
                                    max_order_size_)
  /\ UNCHANGED <<ledger, calls, thr, trader, liab>>

(***************************************************************************)
(* The ledger specification: any sequence of PositionTracker calls.        *)
(***************************************************************************)
LedgerTickers == {"OWL", "CROW", UnknownTicker}

Changes == {-1100, -950, -100, 0, 100, 950, 1100}

Prices == {NoPrice, <<10>>, <<12>>}

Quantities == {100, 950}

\* no thread is inside update_position
Threads == 1 .. NumThreads

ThreadIdle ==
  [pc |-> "idle", ticker |-> UnknownTicker, change |-> 0, price |-> NoPrice,
   new_position |-> 0, new_cost |-> RatInt(0), ret |-> FALSE]

Init ==
  /\ TrackerInit
  /\ op = <<"init">>
  /\ ret = TRUE
  /\ calls = 0
  /\ thr = [th \in Threads |-> ThreadIdle]
  /\ TraderInit
  /\ min_order_size = 100
  /\ LiabInit

UpdatePosition ==
  /\ calls < MaxCalls
  /\ \E t \in LedgerTickers, c \in Changes, p \in Prices :
       update_position(t, c, p)

CanTradeCall ==
  /\ calls < MaxCalls
  /\ \E t \in LedgerTickers, q \in Quantities, a \in {"BUY", "SELL"} :
       can_trade(t, q, a)

ResetPositions ==
  /\ calls < MaxCalls
  /\ reset_positions

Next == UpdatePosition \/ CanTradeCall \/ ResetPositions

Spec == Init /\ [][Next]_vars

(***************************************************************************)
(* The trader specification: execute_trades on arriving quotes, position   *)
(* changes reported to the ledger, and the venue.                          *)
(***************************************************************************)
\* number of quotes that enter a ticker's price window
MaxSamples == 3

\* number of position changes reported to the ledger
MaxFills == 1

Quotes == { <<9990, 10010>>, <<10090, 10110>>,
            <<10010, 9990>>, <<0, 10010>>, <<9000, 10000>>, <<10000, 10000>> }

Securities ==
  { [ticker |-> t, bid |-> q[1], ask |-> q[2]] : t \in Tickers, q \in Quotes }
  \cup { [ticker |-> UnknownTicker, bid |-> 9990, ask |-> 10010] }

FillChanges == {-1000, -950, -50, 50, 950, 1000}

\* execute_trades and update_position read and write only the entries of
\* their own ticker, so a behaviour of this specification works one ticker:
\* nothing has happened yet on any other ticker
OnlyTicker(t) ==
  \A u \in Tickers \ {t} :
    positions[u] = 0 /\ price_history[u] = <<>> /\ resting[u] = {}

InitTrader ==
  /\ TrackerInit
  /\ TraderInit
  /\ min_order_size \in MinOrderSizes
  /\ LiabInit
  /\ op = <<"init">>
  /\ ret = TRUE
  /\ calls = 0
  /\ thr = [th \in Threads |-> ThreadIdle]

ExecuteTrades ==
  \E sec \in Securities :
    /\ sec.ticker \in Tickers =>
         OnlyTicker(sec.ticker) /\ Len(price_history[sec.ticker]) < MaxSamples
    /\ execute_trades(sec)

Fill ==
  /\ calls < MaxFills
  /\ \E t \in Tickers, c \in FillChanges :
       OnlyTicker(t) /\ update_position(t, c, NoPrice)

VenueClears == \E t \in Tickers : venue_clears(t)

NextTrader == ExecuteTrades \/ Fill \/ VenueClears

SpecTrader == InitTrader /\ [][NextTrader]_vars

(***************************************************************************)
(* Claims about Trader.execute_trades (checked under SpecTrader).          *)
(***************************************************************************)
\* the last operation was an execute_trades that got as far as the cancel
Quoted == op[1] = "execute_trades" /\ cancelled # "none"

\* the orders of the last execute_trades on the given side
Submitted(action) ==
  {i \in 1 .. Len(submitted) : submitted[i].action = action}

\* |position_skew| > 0.8 on the ticker of the last operation, long or short
UnwindLong == 5 * positions[op[2]] > 4 * max_position_size[op[2]]

UnwindShort == 5 * positions[op[2]] < -4 * max_position_size[op[2]]

\* C6: orders of a new batch are submitted only once the earlier batch of the
\* ticker has been cancelled: orders of an earlier batch never rest beside
\* orders of the latest one, also when the cancel request fails.
NoStaleBesideFresh ==
  \A t \in Tickers : ~({"stale", "fresh"} \subseteq resting[t])

\* C7: no execution of execute_trades changes positions, position_costs or
\* last_prices, whether its orders are acknowledged or fail.
TradesLeaveLedger ==
  [][op'[1] = "execute_trades" => UNCHANGED ledger]_vars

\* C7 witness: execute_trades on a ticker with a position had one order
\* acknowledged and the other one failed
OneAckOneFailure ==
  /\ Quoted
  /\ positions[op[2]] # 0
  /\ Len(submitted) = 2
  /\ submitted[1].ack
  /\ ~submitted[2].ack

\* C8: every order execute_trades submits passes the ledger's admission check:
\* the position plus a BUY quantity (minus a SELL quantity) stays within the
\* instrument's position limit.
SubmittedOrdersAdmitted ==
  Quoted =>
    \A i \in 1 .. Len(submitted) :
      CanTrade(op[2], submitted[i].quantity, submitted[i].action)

\* C9: in emergency unwind the accumulating side is not submitted: no BUY when
\* long with skew > 0.8, no SELL when short with skew < -0.8.
NoAccumulatingOrderInUnwind ==
  Quoted =>
    /\ UnwindLong => Submitted("BUY") = {}
    /\ UnwindShort => Submitted("SELL") = {}

\* C10: for every position with |skew| > 0.8, execute_trades on a valid quote
\* with at least 2 samples submits the unwinding order at the opposite touch:
\* a SELL at the current bid when long, a BUY at the current ask when short.
UnwindOrderAtTouch ==
  Quoted =>
    /\ UnwindLong =>
         \E i \in Submitted("SELL") : submitted[i].price = op[3]
    /\ UnwindShort =>
         \E i \in Submitted("BUY") : submitted[i].price = op[4]

\* the quote <<bid, ask>> is bad: bid <= 0, ask <= 0, ask <= bid, or
\* (ask - bid) / mid > 0.035 with mid = (bid + ask) / 2
BadQuote(bid, ask) ==
  \/ bid <= 0
  \/ ask <= 0
  \/ ask <= bid
  \/ 2 * 1000 * (ask - bid) > 35 * (bid + ask)

\* C11: execute_trades on a bad market quote returns 0, sends no cancel and no
\* order, and appends nothing to the price history.
BadQuoteEmitsNothing ==
  [][(op'[1] = "execute_trades" /\ BadQuote(op'[3], op'[4]))
       => /\ ret' = 0
          /\ cancelled' = "none"
          /\ submitted' = << >>
          /\ UNCHANGED <<price_history, resting>>]_vars

\* C11 witness: a bad quote arrived for a ticker that has samples in its
\* window and orders resting at the venue
BadQuoteAfterQuoting ==
  /\ op[1] = "execute_trades"
  /\ op[2] \in Tickers
  /\ BadQuote(op[3], op[4])
  /\ Len(price_history[op[2]]) >= 2
  /\ resting[op[2]] # {}

\* C25: every order quantity of execute_trades is a multiple of the lot size
\* 100 and lies between min_order_size and the instrument's max_order_size,
\* for every position within the position limit.
OrderSizesInLots ==
  op[1] = "execute_trades" =>
    \A i \in 1 .. Len(submitted) :
      /\ submitted[i].quantity % 100 = 0
      /\ submitted[i].quantity >= min_order_size
      /\ submitted[i].quantity <= max_order_size[op[2]]

\* execute_trades quoted a known ticker at position 0 with no mean-reversion
\* signal
QuotedFlatNoSignal ==
  /\ Quoted
  /\ op[2] \in Tickers
  /\ positions[op[2]] = 0
  /\ adjustment = RatInt(1)

\* max(min_spread, target_spread) times the volatility multiplier 0.8, 1.0 or
\* 1.3, in basis points
MultipliedSpread(t) ==
  (Max(min_spread[t], target_spread)
     * (CASE volatility[t] = "LOW" -> 8 [] volatility[t] = "MEDIUM" -> 10
          [] OTHER -> 13)) \div 10

\* price, in cents, is within half a cent of mid * (1 + sign * spread / 2),
\* for twice the mid mid2 in cents and the spread in basis points
NearMidOffset(price, mid2, sign, spread) ==
  2 * Abs(40000 * price - mid2 * (20000 + sign * spread)) <= 40000

\* both orders were requested, the bid and the ask at the cent nearest to
\* mid * (1 - spread / 2) and mid * (1 + spread / 2)
QuotesPlacedAt(spread) ==
  /\ Len(submitted) = 2
  /\ submitted[1].action = "BUY"
  /\ NearMidOffset(submitted[1].price, op[3] + op[4], -1, spread)
  /\ submitted[2].action = "SELL"
  /\ NearMidOffset(submitted[2].price, op[3] + op[4], 1, spread)

\* C26 as stated: with zero position and no mean-reversion signal the spread
\* used for quoting is max(min_spread, target_spread) times the volatility
\* multiplier (0.04 for LOW), the bid and the ask at mid * (1 - spread / 2)
\* and mid * (1 + spread / 2).
QuotesAtMultipliedSpread ==
  QuotedFlatNoSignal => QuotesPlacedAt(MultipliedSpread(op[2]))

\* C26 amended: the spread used for quoting is that product capped at
\* MAX_SPREAD (0.03), the bid and the ask at the cent nearest to
\* mid * (1 - spread / 2) and mid * (1 + spread / 2).
QuotesAtCappedSpread ==
  QuotedFlatNoSignal =>
    QuotesPlacedAt(Min(MultipliedSpread(op[2]), MAX_SPREAD))

\* C26 witness: OWL (LOW volatility) quoted 98.50 / 101.50 around the mid
\* 100.00, a spread of 0.03 where the product is 0.04
LowVolatilityQuotedAtCap ==
  /\ QuotedFlatNoSignal
  /\ volatility[op[2]] = "LOW"
  /\ MultipliedSpread(op[2]) = 400
  /\ op[3] + op[4] = 20000
  /\ submitted[1].price = 9850
  /\ submitted[2].price = 10150

(***************************************************************************)
(* The window specification: update_price_history and execute_trades on    *)
(* one ticker, with a venue that answers every request.  The mid price is  *)
(* the base price except for a bounded number of samples in the window.    *)
(***************************************************************************)
\* number of samples in a window that are away from the base price
MaxSpikes == 2

BaseQuote == [bid |-> 9990, ask |-> 10010]

SpikeQuote == [bid |-> 10090, ask |-> 10110]

\* a crossed quote with the mid of the base quote
CrossedQuote == [bid |-> 10010, ask |-> 9990]

WindowTicker == "OWL"

Spikes(h) == Cardinality({i \in 1 .. Len(h) : h[i] # BaseQuote.bid + BaseQuote.ask})

\* the quote may be appended to the window of WindowTicker
MayAppend(q) ==
  q.bid + q.ask # BaseQuote.bid + BaseQuote.ask
    => Spikes(price_history[WindowTicker]) < MaxSpikes

WindowDicts ==
  { [t \in {WindowTicker} |-> BaseQuote],
    [t \in {WindowTicker} |-> SpikeQuote],
    [t \in {WindowTicker, UnknownTicker} |-> CrossedQuote],
    [t \in {UnknownTicker} |-> BaseQuote] }

InitWindow == Init

UpdatePriceHistory ==
  \E securities \in WindowDicts :
    /\ WindowTicker \in DOMAIN securities => MayAppend(securities[WindowTicker])
    /\ update_price_history(securities)

WindowTrade ==
  \E q \in {BaseQuote, SpikeQuote, CrossedQuote} :
    /\ MayAppend(q)
    /\ execute_trades([ticker |-> WindowTicker, bid |-> q.bid, ask |-> q.ask])
    /\ cancelled' # "failed"
    /\ \A i \in 1 .. Len(submitted') : submitted'[i].ack

NextWindow == UpdatePriceHistory \/ WindowTrade

SpecWindow == InitWindow /\ [][NextWindow]_vars

(***************************************************************************)
(* Claims about the price window (checked under SpecWindow).               *)
(***************************************************************************)
\* all samples of the window are equal
ConstantWindow(h) == \A i \in 1 .. Len(h) : h[i] = h[1]

\* C12: when execute_trades computes its signal on a window whose samples are
\* all equal, it raises nothing and goes on to quote, with the neutral
\* mean-reversion adjustment 1.0 (z-score 0, HOLD).
ConstantWindowHolds ==
  (/\ op[1] = "execute_trades"
   /\ op[2] \in Tickers
   /\ ~BadQuote(op[3], op[4])
   /\ Len(price_history[op[2]]) >= 2
   /\ ConstantWindow(price_history[op[2]]))
    => (cancelled # "none" /\ adjustment = RatInt(1))

\* C12 witness: execute_trades has quoted on a constant window of at least 6
\* samples, the length from which a single sample can lie more than 2
\* standard deviations from the mean
QuotedOnConstantWindow ==
  /\ Quoted
  /\ Len(price_history[op[2]]) >= 6
  /\ ConstantWindow(price_history[op[2]])
  /\ adjustment = RatInt(1)

\* the last k elements of a sequence
Latest(q, k) == IF Len(q) <= k THEN q ELSE SubSeq(q, Len(q) - k + 1, Len(q))

\* the mid price (twice) that the last operation appended to the window of t,
\* << >> if it appended none
AppendedMid(o, t) ==
  IF o[1] = "update_price_history" /\ t \in DOMAIN o[2]
  THEN <<o[2][t].bid + o[2][t].ask>>
  ELSE IF o[1] = "execute_trades" /\ o[2] = t /\ ~BadQuote(o[3], o[4])
  THEN <<o[3] + o[4]>>
  ELSE << >>

\* C13: a window never holds more than 20 samples, and every append leaves the
\* latest min(n, 20) mid prices in arrival order: on overflow the oldest
\* sample is the one evicted.
WindowKeepsLatest ==
  [][\A t \in Tickers :
       /\ Len(price_history'[t]) <= 20
       /\ price_history'[t] =
            Latest(price_history[t] \o AppendedMid(op', t), 20)]_vars

\* C13 witness: update_price_history brought a spike to a window that was
\* full: it holds 20 samples, the spike being the latest
OldestEvicted ==
  /\ op[1] = "update_price_history"
  /\ WindowTicker \in op[3]
  /\ Len(price_history[WindowTicker]) = 20
  /\ price_history[WindowTicker][20] = SpikeQuote.bid + SpikeQuote.ask
  /\ Spikes(price_history[WindowTicker]) = 1

(***************************************************************************)
(* The refresh specification: should_refresh_orders and execute_trades as  *)
(* the clock advances, with a venue that answers every request.            *)
(***************************************************************************)
\* number of seconds the clock advances
MaxTicks == 4

RefreshTickers == {"OWL", "CROW", UnknownTicker}

InitRefresh == Init

Tick ==
  /\ now < StartTime + MaxTicks
  /\ clock_tick

ShouldRefreshOrders == \E ticker \in RefreshTickers : should_refresh_orders(ticker)

RefreshTrade ==
  /\ Len(price_history[WindowTicker]) < MaxSamples
  /\ execute_trades([ticker |-> WindowTicker, bid |-> BaseQuote.bid,
                     ask |-> BaseQuote.ask])
  /\ cancelled' # "failed"
  /\ \A i \in 1 .. Len(submitted') : submitted'[i].ack

NextRefresh == Tick \/ ShouldRefreshOrders \/ RefreshTrade

SpecRefresh == InitRefresh /\ [][NextRefresh]_vars

(***************************************************************************)
(* Claims about the refresh interval (checked under SpecRefresh).          *)
(***************************************************************************)
\* C14: should_refresh_orders(ticker) returns True only when at least
\* order_refresh_time has passed since its last True for that ticker, whose
\* time last_order_time[ticker] holds: a True call stamps it with the current
\* time, and a False call, a call for another ticker or any other operation
\* leaves it unchanged.
RefreshAtMostOncePerInterval ==
  [][\A t \in Tickers :
       IF op'[1] = "should_refresh_orders" /\ op'[2] = t /\ ret' = TRUE
       THEN /\ now - last_order_time[t] >= order_refresh_time
            /\ last_order_time'[t] = now
       ELSE last_order_time'[t] = last_order_time[t]]_vars

\* C14 witness: a call returned False within the interval after a True call
\* for the same ticker, while another ticker has a different stamp
RefusedWithinInterval ==
  /\ op[1] = "should_refresh_orders"
  /\ op[2] \in Tickers
  /\ ret = FALSE
  /\ last_order_time[op[2]] >= StartTime
  /\ now = last_order_time[op[2]] + 1
  /\ \E u \in Tickers : last_order_time[u] \notin {0, last_order_time[op[2]]}

\* C15: two cancel-and-replace rounds of execute_trades for the same ticker
\* are never less than order_refresh_time apart; here, for two rounds that
\* are consecutive operations.
RoundsDebounced ==
  [][(/\ Quoted
      /\ op'[1] = "execute_trades"
      /\ op'[2] = op[2]
      /\ cancelled' # "none")
       => now' - now >= order_refresh_time]_vars

(***************************************************************************)
(* The evaluation specification: evaluate_tender and                       *)
(* estimate_close_out_time as functions.  The initial state holds the      *)
(* arguments of one call, the call is the only step.                       *)
(***************************************************************************)
EvalActions == {"SELL", "BUY", "sell"}

EvalPrices == {4980, 4990, 5000, 5010, 5020}

EvalQuantities == {0, 500, 1000}

\* volatility, in cents
EvalVolatilities == {0, 5, 10}

\* order books by the quantities of their bids and asks; the last one has no
\* "asks" key
EvalBooks ==
  { [bids |-> <<2000, 3000>>, asks |-> <<3000, 2000>>],
    [bids |-> << >>, asks |-> << >>],
    [bids |-> <<600>>, asks |-> <<600>>],
    [bids |-> <<5000>>] }

\* market_data[ticker]["liquidity"]
EvalLiquidities == {0, 100, 199, 200, 5000}

EvalTimes == {4, 5, 400}

EvalMarketData(vol, liquidity, order_book) ==
  [ABC |-> [bid |-> 4990, ask |-> 5000, last |-> 5000, volatility |-> <<vol>>,
            liquidity |-> liquidity, order_book |-> order_book]]

EvaluateCalls ==
  { <<"call", "evaluate_tender",
      [tender_id |-> 1, ticker |-> "ABC", action |-> a, quantity |-> q,
       price |-> p],
      EvalMarketData(v, l, b), t, FullConfig>> :
    a \in EvalActions, q \in EvalQuantities, p \in EvalPrices,
    v \in EvalVolatilities, l \in EvalLiquidities, b \in EvalBooks,
    t \in EvalTimes }

EstimateCalls ==
  { <<"call", "estimate_close_out_time", q, b, a, m>> :
    q \in EvalQuantities \cup {1001}, b \in EvalBooks,
    a \in EvalActions \cup {"HOLD"}, m \in {200, 300} }

InitEval ==
  /\ TrackerInit
  /\ TraderInit
  /\ LiabInit
  /\ min_order_size = 100
  /\ ret = TRUE
  /\ calls = 0
  /\ thr = [th \in Threads |-> ThreadIdle]
  /\ op \in EvaluateCalls \cup EstimateCalls

EvaluateCall ==
  /\ op[1] = "call"
  /\ op[2] = "evaluate_tender"
  /\ evaluate_call(op[3], op[4], op[5], op[6])

EstimateCall ==
  /\ op[1] = "call"
  /\ op[2] = "estimate_close_out_time"
  /\ estimate_call(op[3], op[4], op[5], op[6])

NextEval == EvaluateCall \/ EstimateCall

SpecEval == InitEval /\ [][NextEval]_vars

(***************************************************************************)
(* Claims about evaluate_tender and estimate_close_out_time (checked under *)
(* SpecEval).  The checks are restated here from their description, in     *)
(* integers, on the arguments held by the operation record.                *)
(***************************************************************************)
\* the last operation was evaluate_tender, on the arguments it records
Evaluated == op[1] = "evaluate_tender" /\ Len(op) = 6

OfferIsSell == op[3].action \in {"SELL", "sell", "Sell"}

OfferIsBuy == op[3].action \in {"BUY", "buy", "Buy"}

OfferMarket == op[4][op[3].ticker]

\* SELL not strictly above the ask, BUY not strictly below the bid
PriceFails ==
  \/ OfferIsSell /\ ~(op[3].price > OfferMarket.ask)
  \/ OfferIsBuy /\ ~(op[3].price < OfferMarket.bid)

\* the sum of the quantities on the asks for a SELL, on the bids for a BUY
SideLiquidity(order_book, sell) ==
  LET side == IF sell
              THEN (IF "asks" \in DOMAIN order_book THEN order_book.asks ELSE << >>)
              ELSE (IF "bids" \in DOMAIN order_book THEN order_book.bids ELSE << >>)
      RECURSIVE Total(_)
      Total(k) == IF k = 0 THEN 0 ELSE side[k] + Total(k - 1)
  IN Total(Len(side))

\* ceil(tender_size / max_order_size)
NumOrders(tender_size, max) == (tender_size + max - 1) \div max

\* ceil(size/max) * (max/liquidity) + ceil(size/max) > time_remaining, or the
\* liquidity is <= 0 (infinite close-out time)
TimeFails ==
  LET liq == SideLiquidity(OfferMarket.order_book, OfferIsSell)
      n == NumOrders(op[3].quantity, op[6].max_order_size)
  IN \/ liq <= 0
     \/ n * op[6].max_order_size + n * liq > op[5] * liq

\* liquidity / quantity < liquidity_to_tender_ratio, for a quantity > 0
RatioFails ==
  /\ op[3].quantity > 0
  /\ OfferMarket.liquidity * op[6].liquidity_to_tender_ratio[2]
       < op[3].quantity * op[6].liquidity_to_tender_ratio[1]

\* expected profit, times the denominator of the volatility multiplier
ExpectedProfit ==
  LET m == op[6].volatility_multiplier
      vol == OfferMarket.volatility[1]
  IN IF OfferIsSell
     THEN (m[2] * op[3].price - (m[2] * OfferMarket.ask + vol * m[1]))
            * op[3].quantity
     ELSE ((m[2] * OfferMarket.bid - vol * m[1]) - m[2] * op[3].price)
            * op[3].quantity

Rejected == ret.kind = "return" /\ ret.decision = "REJECT"

\* C16: evaluate_tender rejects a SELL offer priced at or below the ask and a
\* BUY offer priced at or above the bid, whatever the liquidity, the time
\* remaining and the volatility.
UncompetitiveRejected == (Evaluated /\ PriceFails) => Rejected

\* C16 witness: a SELL offer priced exactly at the ask, feasible in time and
\* liquidity, was rejected
SellAtAskRejected ==
  /\ Evaluated
  /\ OfferIsSell
  /\ op[3].price = OfferMarket.ask
  /\ op[3].quantity > 0
  /\ ~TimeFails
  /\ ~RatioFails
  /\ Rejected

\* the reason of the first check that fails, in the order price, close-out
\* time, liquidity ratio, profit
FirstReason ==
  IF PriceFails
  THEN (IF OfferIsSell THEN "Tender price is not above the market ask price"
        ELSE "Tender price is not below the market bid price")
  ELSE IF TimeFails THEN "Not enough time to close position"
  ELSE IF RatioFails THEN "Insufficient liquidity"
  ELSE IF ExpectedProfit > 0 THEN "Profitable"
  ELSE "Not profitable"

\* C17: evaluate_tender returns the reason of the first failing check in the
\* order price sanity, close-out time, liquidity ratio, profitability; an
\* offer with a positive quantity always gets a decision.
ReasonOfFirstFailingCheck ==
  Evaluated =>
    /\ op[3].quantity > 0 => ret.kind = "return"
    /\ ret.kind = "return" => ret.reason = FirstReason

\* C17 witness: an offer passed the price check and failed the time, the
\* ratio and the profit check at once; the reason is that of the time check
SeveralChecksFail ==
  /\ Evaluated
  /\ ~PriceFails
  /\ TimeFails
  /\ RatioFails
  /\ ExpectedProfit <= 0
  /\ ret.kind = "return"
  /\ ret.reason = "Not enough time to close position"

\* the last operation was estimate_close_out_time for a SELL or a BUY offer
Estimated ==
  /\ op[1] = "estimate_close_out_time"
  /\ op[4] \in {"SELL", "sell", "BUY", "buy"}

\* C18: estimate_close_out_time returns
\* ceil(size/max_order_size) * (max_order_size/liquidity) + ceil(size/max_order_size)
\* when the liquidity of the relevant side (asks for SELL, bids for BUY) is
\* positive, 5.2 for size 1000, max_order_size 200 and liquidity 5000, and
\* infinity when that liquidity is <= 0.
CloseOutTimeFormula ==
  Estimated =>
    LET liq == SideLiquidity(op[3], op[4] \in {"SELL", "sell"})
        n == NumOrders(op[2], op[5])
    IN /\ ret.ok
       /\ liq <= 0 => ret.value = Inf
       /\ liq > 0 =>
            /\ ret.value[2] > 0
            /\ ret.value[1] * liq = ret.value[2] * (n * op[5] + n * liq)
       /\ (op[2] = 1000 /\ op[5] = 200 /\ liq = 5000) =>
            5 * ret.value[1] = 26 * ret.value[2]

\* C18 witness: size 1000 in orders of at most 300 against 5000 on the asks:
\* 4 orders, 4 * (300/5000) + 4 = 4.24
CloseOutTimeRoundsUp ==
  /\ Estimated
  /\ op[2] = 1000
  /\ op[5] = 300
  /\ op[4] = "SELL"
  /\ ret.ok
  /\ ret.value = <<106, 25>>

\* C19: evaluate_tender rejects every offer whose estimated close-out time
\* exceeds the time remaining (it is infinite without liquidity on the
\* relevant side) or whose liquidity / quantity is below the configured ratio.
InfeasibleRejected == (Evaluated /\ (TimeFails \/ RatioFails)) => Rejected

\* C19 witness: a competitive, profitable offer that can be closed in time
\* was rejected for a liquidity just below the ratio
RejectedBelowRatio ==
  /\ Evaluated
  /\ ~PriceFails
  /\ ~TimeFails
  /\ RatioFails
  /\ ExpectedProfit > 0
  /\ 5 * (OfferMarket.liquidity + 1) = op[3].quantity
  /\ Rejected

\* C20: an offer that passes the price and the feasibility checks is accepted
\* if and only if its expected profit is strictly positive.
AcceptIffProfit ==
  (/\ Evaluated
   /\ op[3].quantity > 0
   /\ ~PriceFails
   /\ ~TimeFails
   /\ ~RatioFails)
    => /\ ret.kind = "return"
       /\ ret.decision = "ACCEPT" <=> ExpectedProfit > 0

\* C20 witness: an offer passed every check with an expected profit of
\* exactly 0 and was rejected
ZeroProfitRejected ==
  /\ Evaluated
  /\ op[3].quantity > 0
  /\ ~PriceFails
  /\ ~TimeFails
  /\ ~RatioFails
  /\ ExpectedProfit = 0
  /\ Rejected

(***************************************************************************)
(* The payload specification: evaluate_tender on tender dicts from which   *)
(* any of the keys ticker, quantity, price and action may be missing.  The *)
(* initial state holds the arguments of one call, the call is the only     *)
(* step.                                                                   *)
(***************************************************************************)
PayloadKeys == {"ticker", "quantity", "price", "action"}

\* complete offers: each passes every check and is accepted
FullPayloads ==
  { [tender_id |-> 1, ticker |-> "ABC", action |-> a, quantity |-> q,
     price |-> IF a = "SELL" THEN 5020 ELSE 4970] :
    a \in {"SELL", "BUY"}, q \in {500, 1000} }

\* the offer t with only the keys of keep (and its id)
Payload(t, keep) == [k \in keep \cup {"tender_id"} |-> t[k]]

PayloadCalls ==
  { <<"call", "evaluate_tender", Payload(t, keep),
      EvalMarketData(v, 5000, b), tm, FullConfig>> :
    t \in FullPayloads, keep \in SUBSET PayloadKeys, v \in {0, 5},
    b \in { [bids |-> <<2000, 3000>>, asks |-> <<3000, 2000>>],
            [bids |-> << >>, asks |-> << >>] },
    tm \in {5, 400} }

InitPayload ==
  /\ TrackerInit
  /\ TraderInit
  /\ LiabInit
  /\ min_order_size = 100
  /\ ret = TRUE
  /\ calls = 0
  /\ thr = [th \in Threads |-> ThreadIdle]
  /\ op \in PayloadCalls

PayloadCall ==
  /\ op[1] = "call"
  /\ op[2] = "evaluate_tender"
  /\ evaluate_call(op[3], op[4], op[5], op[6])

NextPayload == PayloadCall

SpecPayload == InitPayload /\ [][NextPayload]_vars

(***************************************************************************)
(* Claims about malformed tender payloads (checked under SpecPayload).     *)
(***************************************************************************)
Malformed(t) == PayloadKeys \ DOMAIN t # {}

\* C21: a tender dict that misses any of ticker, quantity, price or action is
\* answered by evaluate_tender with a REJECT decision; the call does not
\* raise.
MalformedRejected ==
  (op[1] = "evaluate_tender" /\ Malformed(op[3])) =>
    (ret.kind = "return" /\ ret.decision = "REJECT")

(***************************************************************************)
(* The volatility specification: calculate_volatility as a function.  The  *)
(* initial state holds the arguments of one call, the call is the only     *)
(* step.                                                                   *)
(***************************************************************************)
VolTickers == {"ABC", "XYZ", "OWL"}

\* price samples, in cents
VolPrices == { << >>, <<5000>>, <<5000, 5100>>, <<5000, 5100, 5000>> }

VolLiquidities == {-100, 0, 999}

VolElapsed == {-1, 0, 300, 600, 601}

VolSizes == {0, 1000}

VolatilityCalls ==
  { <<"call", "calculate_volatility", tk, ps, l, e, q, TicksPerPeriod>> :
    tk \in VolTickers, ps \in VolPrices, l \in VolLiquidities,
    e \in VolElapsed, q \in VolSizes }

InitVolatility ==
  /\ TrackerInit
  /\ TraderInit
  /\ LiabInit
  /\ min_order_size = 100
  /\ ret = TRUE
  /\ calls = 0
  /\ thr = [th \in Threads |-> ThreadIdle]
  /\ op \in VolatilityCalls

VolatilityCall ==
  /\ op[1] = "call"
  /\ op[2] = "calculate_volatility"
  /\ volatility_call(op[3], op[4], op[5], op[6], op[7], op[8])

NextVolatility == VolatilityCall

SpecVolatility == InitVolatility /\ [][NextVolatility]_vars

(***************************************************************************)
(* Claims about calculate_volatility (checked under SpecVolatility).       *)
(***************************************************************************)
\* liquidity <= 0 or elapsed_time outside [0, total_time]
InvalidVolatilityInput ==
  op[4] <= 0 \/ op[5] < 0 \/ op[5] > op[7]

\* C22: calculate_volatility fails with an invalid-input error whenever
\* liquidity <= 0 or elapsed_time is outside [0, total_time], whatever the
\* number of price samples, and returns the fixed default only for valid
\* inputs with fewer than 2 samples.
InvalidInputFails ==
  op[1] = "calculate_volatility" =>
    /\ InvalidVolatilityInput => (~ret.ok /\ ret.error = "ValueError")
    /\ (ret.ok /\ ret.value = RatInt(DefaultVolatility)) =>
         (~InvalidVolatilityInput /\ Len(op[3]) < 2)

(***************************************************************************)
(* update_position called from several threads.  PositionTracker takes no  *)
(* lock, so a thread can be preempted between any two statements: each     *)
(* step below is one statement (the line number is in its name).  The +=   *)
(* of lines 44/47 is a read (CostRead) and a later store (CostWrite).      *)
(***************************************************************************)
ConcTickers == {"OWL", "CROW", UnknownTicker}

ConcChanges == {-100, 100, 950}

ConcPrices == {NoPrice, <<10>>}

Frame == UNCHANGED <<op, ret, calls, trader, liab>>

\* a thread enters update_position(ticker, change, price)
ThreadCall(th) ==
  /\ thr[th].pc = "idle"
  /\ \E t \in ConcTickers, c \in ConcChanges, p \in ConcPrices :
       thr' = [thr EXCEPT ![th] =
                 [@ EXCEPT !.pc = "l26", !.ticker = t, !.change = c, !.price = p]]
  /\ UNCHANGED ledger
  /\ Frame

\* line 26: if ticker not in self.positions: return False
ThreadL26(th) ==
  /\ thr[th].pc = "l26"
  /\ thr' = [thr EXCEPT ![th] =
               IF @.ticker \notin DOMAIN positions
               THEN [@ EXCEPT !.pc = "done", !.ret = FALSE]
               ELSE [@ EXCEPT !.pc = "l30"]]
  /\ UNCHANGED ledger
  /\ Frame

\* line 30: new_position = self.positions[ticker] + change
ThreadL30(th) ==
  /\ thr[th].pc = "l30"
  /\ thr' = [thr EXCEPT ![th] =
               [@ EXCEPT !.pc = "l33",
                         !.new_position =
                            positions[thr[th].ticker] + thr[th].change]]
  /\ UNCHANGED ledger
  /\ Frame

\* lines 33-36: the limit check
ThreadL33(th) ==
  /\ thr[th].pc = "l33"
  /\ thr' = [thr EXCEPT ![th] =
               IF ExceedsLimit(@.ticker, @.new_position)
               THEN [@ EXCEPT !.pc = "done", !.ret = FALSE]
               ELSE [@ EXCEPT !.pc = "l39"]]
  /\ UNCHANGED ledger
  /\ Frame

\* line 39: self.positions[ticker] = new_position
ThreadL39(th) ==
  /\ thr[th].pc = "l39"
  /\ positions' = [positions EXCEPT ![thr[th].ticker] = thr[th].new_position]
  /\ thr' = [thr EXCEPT ![th] = [@ EXCEPT !.pc = "l42"]]
  /\ UNCHANGED <<position_costs, last_prices>>
  /\ Frame

\* lines 42-47, the right-hand sides: the new cost basis is computed from
\* position_costs and positions as they are now
ThreadCostRead(th) ==
  /\ thr[th].pc = "l42"
  /\ thr' = [thr EXCEPT ![th] =
               IF @.price = NoPrice
               THEN [@ EXCEPT !.pc = "done", !.ret = TRUE]
               ELSE [@ EXCEPT !.pc = "l47",
                              !.new_cost =
                                 CostAfter(position_costs[thr[th].ticker],
                                           positions[thr[th].ticker],
                                           thr[th].change, thr[th].price)]]
  /\ UNCHANGED ledger
  /\ Frame

\* lines 44/47, the store, and line 49
ThreadCostWrite(th) ==
  /\ thr[th].pc = "l47"
  /\ position_costs' = [position_costs EXCEPT ![thr[th].ticker] = thr[th].new_cost]
  /\ last_prices' = [last_prices EXCEPT
                       ![thr[th].ticker] = LastPriceAfter(@, thr[th].price)]
  /\ thr' = [thr EXCEPT ![th] = [@ EXCEPT !.pc = "done", !.ret = TRUE]]
  /\ UNCHANGED positions
  /\ Frame

ThreadStep ==
  \E th \in Threads :
    \/ ThreadCall(th)
    \/ ThreadL26(th)
    \/ ThreadL30(th)
    \/ ThreadL33(th)
    \/ ThreadL39(th)
    \/ ThreadCostRead(th)
    \/ ThreadCostWrite(th)

NextConc == ThreadStep

SpecConc == Init /\ [][NextConc]_vars

\* the changes admitted (returned True) on ticker t by the threads that are done
RECURSIVE AdmittedSum(_, _)
AdmittedSum(t, S) ==
  IF S = {} THEN 0
  ELSE LET th == CHOOSE x \in S : TRUE
       IN (IF thr[th].pc = "done" /\ thr[th].ret /\ thr[th].ticker = t
           THEN thr[th].change ELSE 0) + AdmittedSum(t, S \ {th})

\* C3: with concurrent callers the position limit is never breached and no
\* admitted change is lost: once every thread has returned, each position is
\* the initial position (0) plus the sum of the changes that returned True.
ConcurrentUpdatesAtomic ==
  /\ \A t \in Tickers : Abs(positions[t]) <= position_limit[t]
  /\ (\A th \in Threads : thr[th].pc = "done")
       => \A t \in Tickers : positions[t] = AdmittedSum(t, Threads)

(***************************************************************************)
(* The cost specification: PositionTracker calls on one ticker, every      *)
(* update_position carrying a price; the operation record holds the        *)
(* arguments.                                                              *)
(***************************************************************************)
CostTickers == {"OWL", UnknownTicker}

CostChanges == {-600, -400, 400, 600}

CostPrices == {<<10>>, <<12>>}

CostQuantities == {400, 600}

InitCost == Init

UpdatePositionCall ==
  /\ calls < MaxCalls
  /\ \E t \in CostTickers, c \in CostChanges, p \in CostPrices :
       update_position_call(t, c, p)

CanTradeQuery ==
  /\ calls < MaxCalls
  /\ \E t \in CostTickers, q \in CostQuantities, a \in {"BUY", "SELL"} :
       can_trade_call(t, q, a)

ResetCall ==
  /\ calls < MaxCalls
  /\ reset_positions

NextCost == UpdatePositionCall \/ CanTradeQuery \/ ResetCall

SpecCost == InitCost /\ [][NextCost]_vars

(***************************************************************************)
(* Claims about the cost basis (checked under SpecCost).                   *)
(***************************************************************************)
\* the step is an admitted update_position on a known ticker
AdmittedFill ==
  /\ op'[1] = "update_position"
  /\ op'[2] \in DOMAIN positions
  /\ ret' = TRUE

\* C23: an admitted priced fill that reduces a non-zero position p with cost
\* basis c by q, 0 < q < |p|, leaves the cost basis c * (|p| - q) / |p|: the
\* average cost per share is unchanged, whatever the fill price.
ReducingFillKeepsAverageCost ==
  [][(/\ AdmittedFill
      /\ positions[op'[2]] * op'[3] < 0
      /\ Abs(op'[3]) < Abs(positions[op'[2]]))
     => LET p == Abs(positions[op'[2]])
            q == Abs(op'[3])
        IN position_costs'[op'[2]] =
             RatMul(position_costs[op'[2]], Rat(p - q, p))]_vars

\* C24: an admitted priced fill in the direction of the current position,
\* or on a flat position, changes the cost basis by exactly signedDelta *
\* fillPrice, for buys on a long or flat position and for sells on a short or
\* flat position.
SameDirectionFillAddsCost ==
  [][(AdmittedFill /\ positions[op'[2]] * op'[3] >= 0)
     => position_costs'[op'[2]] =
          RatAdd(position_costs[op'[2]], RatInt(op'[3] * op'[4][1]))]_vars

\* C28: after admitted update_position calls that all carry a price, a flat
\* position has no residual cost, also when the closing fill price differs
\* from the average cost.
FlatPositionHasNoCost ==
  \A t \in DOMAIN positions :
    positions[t] = 0 => position_costs[t] = RatInt(0)

\* C29: update_position(ticker, +quantity for BUY, -quantity for SELL)
\* returns what can_trade(ticker, quantity, action) returns in the state it
\* is called in, and can_trade changes no ledger state.
CanTradeAgreesWithUpdate ==
  [][/\ op'[1] = "update_position" =>
          ret' = CanTrade(op'[2], Abs(op'[3]),
                          IF op'[3] > 0 THEN "BUY" ELSE "SELL")
     /\ op'[1] = "can_trade" => UNCHANGED ledger]_vars

\* C29 witness: a sell was refused at the short limit; can_trade refuses the
\* same sell and allows a buy of that quantity
SellRefusedAtShortLimit ==
  /\ op[1] = "update_position"
  /\ op[2] = "OWL"
  /\ op[3] < 0
  /\ ret = FALSE
  /\ positions["OWL"] < 0
  /\ ~CanTrade("OWL", -op[3], "SELL")
  /\ CanTrade("OWL", -op[3], "BUY")

(***************************************************************************)
(* Claims about the ledger (checked under Spec).                           *)
(***************************************************************************)
RECURSIVE SumOver(_, _)
SumOver(f, S) ==
  IF S = {} THEN 0
  ELSE LET t == CHOOSE x \in S : TRUE IN f[t] + SumOver(f, S \ {t})

\* exposure(): gross = sum of |position|, net = sum of position
GrossExposure == SumOver([t \in Tickers |-> Abs(positions[t])], Tickers)

NetExposure == SumOver(positions, Tickers)

\* C1: after any sequence of update_position calls from the all-zero state,
\* every ticker's position is within its position limit in absolute value.
PositionWithinLimit ==
  \A t \in Tickers : Abs(positions[t]) <= position_limit[t]

\* C1 witness: a change was rejected on a ticker that holds 950 of its 1000
RejectedNearLimit ==
  /\ op[1] = "update_position"
  /\ op[2] \in Tickers
  /\ ret = FALSE
  /\ Abs(positions[op[2]]) = 950

\* C2: the portfolio stays within the exposure limits: the sum of |position|
\* is at most gross_limit and |sum of position| is at most net_limit.
ExposureWithinLimits ==
  /\ GrossExposure <= gross_limit
  /\ Abs(NetExposure) <= net_limit

\* C4: a call of update_position that returns False leaves positions,
\* position_costs and last_prices of every ticker as they were.
RejectionLeavesLedger ==
  [][(op'[1] = "update_position" /\ calls' = calls + 1 /\ ret' = FALSE)
       => UNCHANGED ledger]_vars

\* C4 witness: a rejection by the limit check on a ticker with a cost basis
RejectedWithCostBasis ==
  /\ op[1] = "update_position"
  /\ op[2] \in Tickers
  /\ ret = FALSE
  /\ positions[op[2]] # 0
  /\ position_costs[op[2]] # RatInt(0)
  /\ last_prices[op[2]] # 0

(***************************************************************************)
(* The tender specification: polling cycles and evaluate_tender calls.     *)
(***************************************************************************)
\* number of polling cycles and evaluate_tender calls
MaxCycles == 3

Statuses == {"raise", "none", "RUNNING", "ACTIVE", "PAUSED", "ENDED"}

\* what get_tenders returns: the open offers, in the venue's order
TenderLists == { << >>, <<Tender1>>, <<Tender1, Tender2>>, <<Tender3>> }

Ticks == {10, 598}

InitTender == Init

PollCycle ==
  /\ cycles < MaxCycles
  /\ \E status \in Statuses, tick \in Ticks, securities_ok \in BOOLEAN,
        tenders \in TenderLists, order_book \in OrderBooks \cup {NoBook} :
       poll_cycle(status, tick, securities_ok, tenders, order_book)

WaitEnded ==
  /\ cycles < MaxCycles
  /\ \E status \in Statuses : wait_ended(status)

EvaluateDirect ==
  /\ cycles < MaxCycles
  /\ \E tender \in TenderPool, order_book \in OrderBooks,
        time_remaining \in {5, 400} :
       evaluate_direct(tender, order_book, time_remaining)

NextTender == PollCycle \/ WaitEnded \/ EvaluateDirect

SpecTender == InitTender /\ [][NextTender]_vars

(***************************************************************************)
(* Claims about tender offers (checked under SpecTender).                  *)
(***************************************************************************)
\* a step of the polling loop
LoopStep(name) == op'[1] = name /\ cycles' # cycles

\* C27: in a RUNNING or ACTIVE cycle every tender offer fetched (its
\* security data and order book at hand) is evaluated by evaluate_tender in
\* that cycle and gets an ACCEPT or REJECT decision; its processing does not
\* end in the exception handler.
FetchedTendersDecided ==
  [][(/\ LoopStep("poll_cycle")
      /\ op'[2] \in {"RUNNING", "ACTIVE"}
      /\ op'[3]
      /\ op'[5] # NoBook)
     => \A i \in 1 .. Len(op'[4]) :
          LET id == op'[4][i].tender_id
          IN /\ evals'[id] > evals[id]
             /\ decided'[id] > decided[id]
             /\ outcome'[id] \in {"ACCEPT", "REJECT"}]_vars

\* C30: the loop evaluates no tender in a cycle whose status is not RUNNING
\* or ACTIVE; a cycle that observes ENDED enters the wait loop, which
\* evaluates nothing, runs no polling cycle and is left only when a fetched
\* status differs from ENDED.
EvaluatedOnlyWhileRunning ==
  [][/\ (LoopStep("poll_cycle") /\ op'[2] \notin {"RUNNING", "ACTIVE"})
          => UNCHANGED <<evals, decided, outcome>>
     /\ (LoopStep("poll_cycle") /\ op'[2] = "ENDED") => lpc' = "wait_ended"
     /\ LoopStep("poll_cycle") => lpc = "poll"
     /\ LoopStep("wait_ended")
          => /\ lpc = "wait_ended"
             /\ UNCHANGED <<evals, decided, outcome>>
             /\ op'[2] = "ENDED" => lpc' = "wait_ended"
     /\ (lpc = "wait_ended" /\ lpc' # "wait_ended")
          => (LoopStep("wait_ended") /\ op'[2] \notin {"ENDED", "raise", "none"})
    ]_vars

\* C30 witness: tenders were evaluated in a running cycle, then ENDED was
\* observed and the wait loop fetched ENDED again and stayed
WaitingAfterEnded ==
  /\ op = <<"wait_ended", "ENDED">>
  /\ lpc = "wait_ended"
  /\ \E id \in TenderIds : evals[id] > 0

\* C5: a tender offer id is evaluated at most once, however many polling
\* cycles return it and however often evaluate_tender is called on it: the
\* body of evaluate_tender runs at most once per id and returns at most one
\* decision for it.
TenderEvaluatedOnce ==
  \A id \in TenderIds : evals[id] <= 1 /\ decided[id] <= 1

====
